---------------------------- MODULE Spec2Model ----------------------------
(***************************************************************************)
(* Model of the Conference Companies API (src/app.py): the Flask route     *)
(* handlers over the SQLite table "companies", the record transformer      *)
(* transform_company_data and the query built by get_companies.            *)
(*                                                                         *)
(* Values.  A JSON / Python / SQLite value is a record [t, n, s]:          *)
(*   t = "null"   None / NULL                                              *)
(*   t = "bool"   JSON true/false (n = 1/0); never stored as such          *)
(*   t = "int"    integer n                                                *)
(*   t = "float"  finite real, n is the value in tenths (15 is 1.5)        *)
(*   t = "inf"    the float +Infinity (json.loads accepts 1e999)           *)
(*   t = "str"    text, s is the sequence of its characters                *)
(*   t = "list"   a JSON array (the sqlite3 driver cannot bind it)         *)
(* src/app.py declares no schema, so a column stores the value the driver  *)
(* binds, unchanged (no column affinity), and "id" is the rowid.           *)
(***************************************************************************)
EXTENDS Integers, Sequences, FiniteSets, TLC

VARIABLES
    dbExists,    \* os.path.exists(DATABASE_PATH): fixed once the process runs
    companies,   \* the table: the set of its rows
    req,         \* the request handled last
    resp,        \* the response it got
    created,     \* history: id -> the company value of the Create that
                 \* returned it, kept until an Update or Delete names the id
    connection   \* the handler's local 'connection' when it returned

vars == <<dbExists, companies, req, resp, created, connection>>

\* The largest row id the model lets the storage assign.
MaxId == 2

\* transform_company_data cuts the description at this many characters.
ShortLen == 100

---------------------------------------------------------------------------
(* Values *)

Null == [t |-> "null", n |-> 0, s |-> <<>>]
IntV(k) == [t |-> "int", n |-> k, s |-> <<>>]
BoolV(b) == [t |-> "bool", n |-> IF b THEN 1 ELSE 0, s |-> <<>>]
FloatV(tenths) == [t |-> "float", n |-> tenths, s |-> <<>>]
InfV == [t |-> "inf", n |-> 0, s |-> <<>>]
StrV(chars) == [t |-> "str", n |-> 0, s |-> chars]
ListV == [t |-> "list", n |-> 1, s |-> <<>>]

\* The code point of each character the model's texts are ordered by.
Ord ==
    (" " :> 32) @@ ("0" :> 48) @@ ("1" :> 49) @@ ("2" :> 50) @@ ("5" :> 53)
    @@ ("A" :> 65) @@ ("B" :> 66) @@ ("L" :> 76) @@ ("P" :> 80)
    @@ ("S" :> 83) @@ ("T" :> 84) @@ ("Y" :> 89)
    @@ ("a" :> 97) @@ ("b" :> 98) @@ ("c" :> 99) @@ ("e" :> 101)
    @@ ("i" :> 105) @@ ("k" :> 107) @@ ("n" :> 110) @@ ("o" :> 111)
    @@ ("s" :> 115) @@ ("t" :> 116) @@ ("x" :> 120) @@ ("y" :> 121)

\* str.lower() on one character.
LowerChar(c) ==
    CASE c = "A" -> "a" [] c = "B" -> "b" [] c = "L" -> "l" [] c = "P" -> "p"
      [] c = "S" -> "s" [] c = "T" -> "t" [] c = "Y" -> "y"
      [] c = "E" -> "e" [] c = "K" -> "k" [] c = "N" -> "n" [] c = "I" -> "i"
      [] OTHER -> c

\* str.lower()
Lower(chars) == [i \in 1..Len(chars) |-> LowerChar(chars[i])]

Whitespace == {" "}

RECURSIVE LStrip(_)
LStrip(chars) ==
    IF chars # <<>> /\ Head(chars) \in Whitespace THEN LStrip(Tail(chars))
    ELSE chars

RECURSIVE RStrip(_)
RStrip(chars) ==
    IF chars # <<>> /\ chars[Len(chars)] \in Whitespace
    THEN RStrip(SubSeq(chars, 1, Len(chars) - 1))
    ELSE chars

\* str.strip()
Strip(chars) == RStrip(LStrip(chars))

Digits == <<"0", "1", "2", "3", "4", "5", "6", "7", "8", "9">>

DigitChars == {Digits[i] : i \in 1..10}

DigitVal(c) == CHOOSE d \in 0..9 : Digits[d + 1] = c

RECURSIVE NatStr(_)
NatStr(k) ==
    IF k < 10 THEN <<Digits[k + 1]>>
    ELSE NatStr(k \div 10) \o <<Digits[(k % 10) + 1]>>

\* str(int)
IntStr(k) == IF k < 0 THEN <<"-">> \o NatStr(0 - k) ELSE NatStr(k)

\* Mutant of Truthy: 'is not None' in place of the truth value.
Truthy_NotNone(v) == v.t # "null"

\* Python's truth value of a value read from a row or a JSON body.
Truthy(v) ==
    CASE v.t = "null" -> FALSE
      [] v.t \in {"bool", "int", "float"} -> v.n # 0
      [] v.t = "str" -> v.s # <<>>
      [] v.t = "list" -> v.n # 0
      [] OTHER -> TRUE

\* str(value)
PyStr(v) ==
    CASE v.t = "str" -> v.s
      [] v.t = "int" -> IntStr(v.n)
      [] v.t = "float" ->
            IF v.n < 0
            THEN <<"-">> \o NatStr((0 - v.n) \div 10) \o <<".">>
                 \o NatStr((0 - v.n) % 10)
            ELSE NatStr(v.n \div 10) \o <<".">> \o NatStr(v.n % 10)
      [] v.t = "inf" -> <<"i", "n", "f">>
      [] v.t = "null" -> <<"N", "o", "n", "e">>
      [] OTHER -> <<"?">>

RECURSIVE DigitsVal(_)
DigitsVal(chars) ==
    IF chars = <<>> THEN 0
    ELSE 10 * DigitsVal(SubSeq(chars, 1, Len(chars) - 1))
         + DigitVal(chars[Len(chars)])

\* The text int() parses after stripping: an optional sign, then digits.
IntBody(chars) ==
    LET t == Strip(chars)
    IN  IF t # <<>> /\ Head(t) \in {"+", "-"} THEN Tail(t) ELSE t

IsIntLiteral(chars) ==
    /\ IntBody(chars) # <<>>
    /\ \A i \in 1..Len(IntBody(chars)) : IntBody(chars)[i] \in DigitChars

IntLiteralVal(chars) ==
    IF Strip(chars)[1] = "-" THEN 0 - DigitsVal(IntBody(chars))
    ELSE DigitsVal(IntBody(chars))

\* int(x) rounds a float toward zero.
TruncTenths(k) == IF k < 0 THEN 0 - ((0 - k) \div 10) ELSE k \div 10

\* int(priority_value): [ok, v] when it returns v; otherwise the exception.
PyInt(v) ==
    CASE v.t \in {"int", "bool"} -> [ok |-> TRUE, v |-> v.n, exc |-> ""]
      [] v.t = "float" -> [ok |-> TRUE, v |-> TruncTenths(v.n), exc |-> ""]
      [] v.t = "inf" -> [ok |-> FALSE, v |-> 0, exc |-> "OverflowError"]
      [] v.t = "str" ->
            IF IsIntLiteral(v.s)
            THEN [ok |-> TRUE, v |-> IntLiteralVal(v.s), exc |-> ""]
            ELSE [ok |-> FALSE, v |-> 0, exc |-> "ValueError"]
      [] OTHER -> [ok |-> FALSE, v |-> 0, exc |-> "TypeError"]


---------------------------------------------------------------------------
(* Storage: what the SQL statements of the handlers do *)

Columns ==
    {"company", "country", "stand", "czym_zajmuje_sie_firma",
     "problemy_i_wyzwania", "mozliwosci_AI_i_danych",
     "zaczepka1", "zaczepka2", "zaczepka3", "czy_warto_sie_zainteresowac"}

\* dict.get(key): None when the key is missing.
Get(data, key) == IF key \in DOMAIN data THEN data[key] ELSE Null

\* dict.get(key, default)
GetDefault(data, key, default) ==
    IF key \in DOMAIN data THEN data[key] ELSE default

\* sqlite3 binds str, int, float and None; bool is an int; a list is refused.
Bindable(v) == v.t # "list"

\* The value a bound parameter is stored as.
Bind(v) == IF v.t = "bool" THEN IntV(v.n) ELSE v

\* The storage classes SQLite orders by: NULL, then numbers, then text.
ClassRank(v) ==
    CASE v.t = "null" -> 0
      [] v.t \in {"int", "float", "inf"} -> 1
      [] OTHER -> 2

\* A finite number in tenths.
Tenths(v) == IF v.t = "int" THEN 10 * v.n ELSE v.n

NumLess(a, b) ==
    /\ a.t # "inf"
    /\ b.t = "inf" \/ Tenths(a) < Tenths(b)

\* memcmp order of two texts (the BINARY collation).
RECURSIVE TextLess(_, _)
TextLess(a, b) ==
    IF b = <<>> THEN FALSE
    ELSE IF a = <<>> THEN TRUE
    ELSE IF Head(a) = Head(b) THEN TextLess(Tail(a), Tail(b))
    ELSE Ord[Head(a)] < Ord[Head(b)]

\* a sorts strictly before b under ORDER BY ... ASC.
SqlLess(a, b) ==
    IF ClassRank(a) # ClassRank(b) THEN ClassRank(a) < ClassRank(b)
    ELSE CASE ClassRank(a) = 0 -> FALSE
           [] ClassRank(a) = 1 -> NumLess(a, b)
           [] OTHER -> TextLess(a.s, b.s)

\* Mutant of SqlEqText: a number equals the text that spells it.
SqlEqText_Spelled(v, chars) ==
    v.t # "null" /\ (IF v.t = "str" THEN v.s ELSE PyStr(v)) = chars

\* column = 'text' : true only of a stored text with the same characters
\* (a NULL or a number compared with a text is not equal to it).
SqlEqText(v, chars) == v.t = "str" /\ v.s = chars

\* The text SQLite's LIKE sees for a stored value.
SqlText(v) ==
    CASE v.t = "str" -> v.s
      [] v.t = "inf" -> <<"I", "n", "f">>
      [] OTHER -> PyStr(v)

Contains(chars, part) ==
    \E i \in 0..(Len(chars) - Len(part)) :
        SubSeq(chars, i + 1, i + Len(part)) = part

\* column LIKE '%text%' (ASCII case-insensitive; NULL never matches).
Like(v, chars) ==
    /\ v.t # "null"
    /\ Contains(Lower(SqlText(v)), Lower(chars))

\* The parameter tuple of the INSERT.
InsertParams(data) ==
    [c \in Columns |->
        IF c = "czy_warto_sie_zainteresowac"
        THEN GetDefault(data, c, IntV(0))
        ELSE Get(data, c)]

\* Mutant of UpdateParams: the priority defaults to 0 as in the INSERT.
UpdateParams_Defaulting(data) == InsertParams(data)

\* The parameter tuple of the UPDATE (without the id).
UpdateParams(data) == [c \in Columns |-> Get(data, c)]

\* cursor.execute raises when a parameter cannot be bound.
ExecuteRaises(params) == \E c \in Columns : ~Bindable(params[c])

\* The row the statement writes for id.
StoredRow(id, params) ==
    [c \in Columns \cup {"id"} |-> IF c = "id" THEN id ELSE Bind(params[c])]

Max(S) == CHOOSE x \in S : \A y \in S : y <= x

\* Mutant of NewRowId: one past the number of rows.
NewRowId_Count(table) == Cardinality(table) + 1

\* cursor.lastrowid of an INSERT into a rowid table: one past the largest
\* rowid in use.
NewRowId(table) ==
    IF table = {} THEN 1 ELSE Max({r.id : r \in table}) + 1

\* INSERT INTO companies (...) VALUES (...), the storage assigning id.
InsertInto(table, id, params) == table \cup {StoredRow(id, params)}

\* UPDATE companies SET ... WHERE id = ?
UpdateWhereId(table, id, params) ==
    {IF r.id = id THEN StoredRow(id, params) ELSE r : r \in table}

\* Mutant of DeleteWhereId: WHERE id >= ?
DeleteWhereId_AtLeast(table, id) == {r \in table : r.id < id}

\* DELETE FROM companies WHERE id = ?
DeleteWhereId(table, id) == {r \in table : r.id # id}

\* SELECT * FROM companies WHERE id = ?  (also the rows a WHERE id = ?
\* statement touches: cursor.rowcount is their number)
SelectWhereId(table, id) == {r \in table : r.id = id}

---------------------------------------------------------------------------
(* The record transformer *)

HookKeys == <<"zaczepka1", "zaczepka2", "zaczepka3">>

\* 'Sprawdź szczegóły'
Placeholder == StrV(<<"S", "p", "r", "a", "w", "d", "z", " ",
                      "s", "z", "c", "z", "e", "g", "o", "l", "y">>)

HookKept(v) == Truthy(v) /\ Strip(PyStr(v)) # <<>>

RECURSIVE HooksFrom(_, _)
HooksFrom(row, i) ==
    IF i > Len(HookKeys) THEN <<>>
    ELSE (IF HookKept(row[HookKeys[i]])
          THEN <<Strip(PyStr(row[HookKeys[i]]))>>
          ELSE <<>>) \o HooksFrom(row, i + 1)

Hooks(row) == HooksFrom(row, 1)

\* The rarity block: [ok, v], or the exception that escapes it.
Rarity(priority_value) ==
    IF priority_value.t = "null" THEN [ok |-> TRUE, v |-> 0, exc |-> ""]
    ELSE LET r == PyInt(priority_value)
         IN  IF r.ok
             THEN [ok |-> TRUE, v |-> IF r.v \in {0, 1, 2} THEN r.v ELSE 0,
                   exc |-> ""]
             ELSE IF r.exc \in {"ValueError", "TypeError"}
             THEN [ok |-> TRUE, v |-> 0, exc |-> ""]
             ELSE [ok |-> FALSE, v |-> 0, exc |-> r.exc]

\* The short description with the cut placed at ShortLen characters or more.
ShortDescription_Inclusive(d) ==
    IF Truthy(d) /\ Len(PyStr(d)) >= ShortLen
    THEN IF d.t = "str"
         THEN [ok |-> TRUE, exc |-> "",
               v |-> StrV(SubSeq(d.s, 1, ShortLen) \o <<".", ".", ".">>)]
         ELSE [ok |-> FALSE, exc |-> "TypeError", v |-> Null]
    ELSE [ok |-> TRUE, exc |-> "", v |-> IF Truthy(d) THEN d ELSE Placeholder]

ShortDescription(d) ==
    IF Truthy(d) /\ Len(PyStr(d)) > ShortLen
    THEN IF d.t = "str"
         THEN [ok |-> TRUE, exc |-> "",
               v |-> StrV(SubSeq(d.s, 1, ShortLen) \o <<".", ".", ".">>)]
         ELSE [ok |-> FALSE, exc |-> "TypeError", v |-> Null]
    ELSE [ok |-> TRUE, exc |-> "", v |-> IF Truthy(d) THEN d ELSE Placeholder]

\* transform_company_data(row): [ok |-> TRUE, v |-> the API record], or
\* [ok |-> FALSE] with the exception it raises.
transform_company_data(row) ==
    LET rarity == Rarity(row.czy_warto_sie_zainteresowac)
        short == ShortDescription(row.czym_zajmuje_sie_firma)
        company ==
            [id |-> row.id,
             name |-> row.company,
             boothNumber |-> row.stand,
             country |-> row.country,
             positions |-> <<"Sprawdz na miejscu">>,
             shortDescription |-> short.v,
             description |-> row.czym_zajmuje_sie_firma,
             problems |-> row.problemy_i_wyzwania,
             opportunities |-> row.mozliwosci_AI_i_danych,
             rarity |-> rarity.v,
             hooks |-> Hooks(row)]
    IN  IF ~rarity.ok THEN [ok |-> FALSE, exc |-> rarity.exc, v |-> company]
        ELSE IF ~short.ok THEN [ok |-> FALSE, exc |-> short.exc, v |-> company]
        ELSE [ok |-> TRUE, exc |-> "", v |-> company]

---------------------------------------------------------------------------
(* Requests and responses *)

NoData == [k \in {} |-> Null]

NoArgs ==
    [present |-> {}, search |-> <<>>, searchBy |-> "company", priority |-> <<>>]

NoRequest ==
    [op |-> "none", id |-> 0, hasBody |-> FALSE, data |-> NoData,
     args |-> NoArgs]

Request(op, id, hasBody, data, args) ==
    [op |-> op, id |-> id, hasBody |-> hasBody, data |-> data, args |-> args]

\* jsonify(...), status
Response(status, error, id, items) ==
    [status |-> status, error |-> error, id |-> id, items |-> items]

NoResponse == Response(0, "", 0, <<>>)

\* get_db_connection() returns None when the data file is absent.
get_db_connection == dbExists

\* The handler's connection at its return: none acquired (the request was
\* refused before get_db_connection(), or get_db_connection() returned
\* None), acquired and closed by connection.close(), or acquired and left
\* open because the handler returned without reaching connection.close().
NotAcquired == "none"
Closed == "closed"
Open == "open"

\* Mutant of NotData: only a missing body counts as no data.
NotData_OnlyNone(hasBody, data) == ~hasBody

\* 'not data': get_json() gave None or an empty object.
NotData(hasBody, data) == ~hasBody \/ DOMAIN data = {}

---------------------------------------------------------------------------
(* The query of get_companies *)

YesTokens ==
    {<<"t", "a", "k">>, <<"y", "e", "s">>, <<"1">>, <<"t", "r", "u", "e">>,
     <<"w", "a", "r", "t", "o">>}

NoTokens ==
    {<<"n", "i", "e">>, <<"n", "o">>, <<"0">>, <<"f", "a", "l", "s", "e">>}

\* The search condition: a predicate only for searchBy company or stand.
SearchCondition(row, search, search_by) ==
    IF search = <<>> THEN TRUE
    ELSE IF search_by = "company" THEN Like(row.company, search)
    ELSE IF search_by = "stand" THEN Like(row.stand, search)
    ELSE TRUE

\* The priority condition.
PriorityCondition(row, priority) ==
    IF priority = <<>> THEN TRUE
    ELSE IF Lower(priority) \in YesTokens
    THEN \/ SqlEqText(row.czy_warto_sie_zainteresowac, <<"1">>)
         \/ SqlEqText(row.czy_warto_sie_zainteresowac, <<"t", "a", "k">>)
         \/ SqlEqText(row.czy_warto_sie_zainteresowac, <<"y", "e", "s">>)
    ELSE IF Lower(priority) \in NoTokens
    THEN \/ SqlEqText(row.czy_warto_sie_zainteresowac, <<"0">>)
         \/ SqlEqText(row.czy_warto_sie_zainteresowac, <<"n", "i", "e">>)
         \/ SqlEqText(row.czy_warto_sie_zainteresowac, <<"n", "o">>)
    ELSE SqlEqText(row.czy_warto_sie_zainteresowac, priority)

\* The rows the WHERE clause selects.
Selected(table, args) ==
    {r \in table :
        /\ SearchCondition(r, Strip(args.search), args.searchBy)
        /\ PriorityCondition(r, args.priority)}

\* ORDER BY company ASC: every order of the rows in which no row comes
\* before one whose company sorts strictly before its own.
OrderByCompany(rows) ==
    {order \in [1..Cardinality(rows) -> rows] :
        /\ \A i, j \in 1..Cardinality(rows) : i # j => order[i] # order[j]
        /\ \A i, j \in 1..Cardinality(rows) :
              i < j => ~SqlLess(order[j].company, order[i].company)}

---------------------------------------------------------------------------
(* Route handlers *)

\* GET /api/companies
get_companies(args) ==
    /\ req' = Request("get_companies", 0, FALSE, NoData, args)
    /\ UNCHANGED <<dbExists, companies, created>>
    /\ IF ~get_db_connection
       THEN /\ resp' = Response(500, "connection", 0, <<>>)
            /\ connection' = NotAcquired
       ELSE \E rows \in OrderByCompany(Selected(companies, args)) :
              LET out == [i \in 1..Len(rows) |->
                             transform_company_data(rows[i])]
              IN  IF \E i \in 1..Len(rows) : ~out[i].ok
                  THEN /\ resp' = Response(500, "server", 0, <<>>)
                       /\ connection' = Open
                  ELSE /\ resp' = Response(200, "", 0,
                                           [i \in 1..Len(rows) |-> out[i].v])
                       /\ connection' = Closed

\* GET /api/companies/<id>
get_company(company_id) ==
    /\ req' = Request("get_company", company_id, FALSE, NoData, NoArgs)
    /\ UNCHANGED <<dbExists, companies, created>>
    /\ IF ~get_db_connection
       THEN /\ resp' = Response(500, "connection", 0, <<>>)
            /\ connection' = NotAcquired
       ELSE IF SelectWhereId(companies, company_id) = {}
       THEN /\ resp' = Response(404, "not found", 0, <<>>)
            /\ connection' = Closed
       ELSE \E row \in SelectWhereId(companies, company_id) :
              LET company == transform_company_data(row)
              IN  IF ~company.ok
                  THEN /\ resp' = Response(500, "server", 0, <<>>)
                       /\ connection' = Open
                  ELSE /\ resp' = Response(200, "", 0, <<company.v>>)
                       /\ connection' = Closed

\* POST /api/companies
add_company(hasBody, data) ==
    /\ req' = Request("add_company", 0, hasBody, data, NoArgs)
    /\ UNCHANGED dbExists
    /\ IF NotData(hasBody, data) \/ ~Truthy(Get(data, "company"))
       THEN /\ resp' = Response(400, "company required", 0, <<>>)
            /\ connection' = NotAcquired
            /\ UNCHANGED <<companies, created>>
       ELSE IF ~get_db_connection
       THEN /\ resp' = Response(500, "connection", 0, <<>>)
            /\ connection' = NotAcquired
            /\ UNCHANGED <<companies, created>>
       ELSE IF ExecuteRaises(InsertParams(data))
       THEN /\ resp' = Response(500, "server", 0, <<>>)
            /\ connection' = Open
            /\ UNCHANGED <<companies, created>>
       ELSE LET company_id == NewRowId(companies)
            IN  /\ company_id <= MaxId
                /\ companies' =
                      InsertInto(companies, company_id, InsertParams(data))
                /\ resp' = Response(201, "", company_id, <<>>)
                /\ connection' = Closed
                /\ created' =
                      [i \in DOMAIN created \cup {company_id} |->
                          IF i = company_id THEN data["company"]
                          ELSE created[i]]

\* PUT /api/companies/<id>
update_company(company_id, hasBody, data) ==
    /\ req' = Request("update_company", company_id, hasBody, data, NoArgs)
    /\ UNCHANGED dbExists
    /\ created' = [i \in DOMAIN created \ {company_id} |-> created[i]]
    /\ IF NotData(hasBody, data)
       THEN /\ resp' = Response(400, "no data", 0, <<>>)
            /\ connection' = NotAcquired
            /\ UNCHANGED companies
       ELSE IF ~get_db_connection
       THEN /\ resp' = Response(500, "connection", 0, <<>>)
            /\ connection' = NotAcquired
            /\ UNCHANGED companies
       ELSE IF ExecuteRaises(UpdateParams(data))
       THEN /\ resp' = Response(500, "server", 0, <<>>)
            /\ connection' = Open
            /\ UNCHANGED companies
       ELSE /\ companies' =
                  UpdateWhereId(companies, company_id, UpdateParams(data))
            /\ connection' = Closed
            /\ IF SelectWhereId(companies, company_id) = {}
               THEN resp' = Response(404, "not found", 0, <<>>)
               ELSE resp' = Response(200, "", 0, <<>>)

\* DELETE /api/companies/<id>
delete_company(company_id) ==
    /\ req' = Request("delete_company", company_id, FALSE, NoData, NoArgs)
    /\ UNCHANGED dbExists
    /\ created' = [i \in DOMAIN created \ {company_id} |-> created[i]]
    /\ IF ~get_db_connection
       THEN /\ resp' = Response(500, "connection", 0, <<>>)
            /\ connection' = NotAcquired
            /\ UNCHANGED companies
       ELSE /\ companies' = DeleteWhereId(companies, company_id)
            /\ connection' = Closed
            /\ IF SelectWhereId(companies, company_id) = {}
               THEN resp' = Response(404, "not found", 0, <<>>)
               ELSE resp' = Response(200, "", 0, <<>>)

---------------------------------------------------------------------------
(* The requests the model sends *)

Priority == "czy_warto_sie_zainteresowac"
Description == "czym_zajmuje_sie_firma"

Tak == <<"t", "a", "k">>
Nie == <<"n", "i", "e">>

\* A body that carries every field.
FullBody ==
    ("company" :> StrV(<<"B">>)) @@ ("country" :> StrV(<<"P", "L">>))
    @@ ("stand" :> StrV(<<"S", "1">>)) @@ (Description :> StrV(<<"a", "b">>))
    @@ ("problemy_i_wyzwania" :> StrV(<<"x">>))
    @@ ("mozliwosci_AI_i_danych" :> StrV(<<"y">>))
    @@ ("zaczepka1" :> StrV(<<" ", "a", " ">>)) @@ ("zaczepka2" :> StrV(<<>>))
    @@ ("zaczepka3" :> StrV(<<"b">>)) @@ (Priority :> IntV(1))

\* The JSON objects sent to Create and Update.
Bodies ==
    { NoData,
      ("company" :> StrV(<<"A">>)),
      ("company" :> StrV(<<"B">>)) @@ (Priority :> StrV(Tak)),
      ("company" :> StrV(<<"a">>)) @@ (Priority :> InfV),
      ("company" :> StrV(<<>>)) @@ ("country" :> StrV(<<"P", "L">>)),
      ("country" :> StrV(<<"P", "L">>)),
      ("company" :> BoolV(TRUE)),
      ("company" :> StrV(<<"A">>)) @@ ("zaczepka1" :> ListV),
      FullBody }

Ids == 1..MaxId

Args(present, search, search_by, priority) ==
    [present |-> present, search |-> search, searchBy |-> search_by,
     priority |-> priority]

\* request.args of List: each parameter absent (its default stands in) or
\* present; search and priority vary alone and together.
ListArgs ==
    { Args(ps \cup pb, s, b, <<>>) :
        <<ps, s>> \in {<<{}, <<>>>>, <<{"search"}, <<" ", "a">>>>},
        <<pb, b>> \in {<<{}, "company">>, <<{"searchBy"}, "stand">>,
                       <<{"searchBy"}, "name">>} }
    \cup { Args({"priority"}, <<>>, "company", p) :
             p \in {Tak, Nie, <<"T", "A", "K">>, <<"2">>} }
    \cup { Args({"search", "priority"}, <<"a">>, "company", Tak),
           Args({"search", "searchBy", "priority"}, <<"a">>, "stand", Nie) }

\* The List requests of the service run: a few of ListArgs.
ServiceListArgs ==
    { NoArgs,
      Args({"priority"}, <<>>, "company", Tak),
      Args({"priority"}, <<>>, "company", Nie),
      Args({"search"}, <<"a">>, "company", <<>>),
      Args({"search", "searchBy"}, <<"1">>, "stand", <<>>) }

---------------------------------------------------------------------------
(* The service: requests handled one after another *)

Init ==
    /\ dbExists \in BOOLEAN
    /\ companies = {}
    /\ req = NoRequest
    /\ resp = NoResponse
    /\ created = <<>>
    /\ connection = NotAcquired

Next ==
    \/ \E args \in ServiceListArgs : get_companies(args)
    \/ \E id \in Ids : get_company(id)
    \/ \E data \in Bodies : add_company(TRUE, data)
    \/ add_company(FALSE, NoData)
    \/ \E id \in Ids, data \in Bodies : update_company(id, TRUE, data)
    \/ \E id \in Ids : update_company(id, FALSE, NoData)
    \/ \E id \in Ids : delete_company(id)

Spec == Init /\ [][Next]_vars

---------------------------------------------------------------------------
(* The queries over a stored table: the table holds rows that earlier      *)
(* Create and Update requests can have written, and only reads follow.     *)

\* A stored row with company 'A' and the given priority, hooks and
\* description; every other column NULL.
ProbeRow(id, priority, hook1, hook2, hook3, description) ==
    StoredRow(id,
        [c \in Columns |->
            CASE c = "company" -> StrV(<<"A">>)
              [] c = Priority -> priority
              [] c = "zaczepka1" -> hook1
              [] c = "zaczepka2" -> hook2
              [] c = "zaczepka3" -> hook3
              [] c = Description -> description
              [] OTHER -> Null])

\* Raw priority values of every storage class.
PriorityValues ==
    { Null, IntV(0), IntV(1), IntV(2), IntV(5), IntV(-1),
      FloatV(10), FloatV(15), FloatV(-5), InfV,
      StrV(<<"0">>), StrV(<<"1">>), StrV(<<"2">>), StrV(<<" ", "2", " ">>),
      StrV(Tak), StrV(<<"y", "e", "s">>), StrV(Nie), StrV(<<"n", "o">>),
      StrV(<<"T", "A", "K">>), StrV(<<"a", "b", "c">>), StrV(<<>>) }

HookValues ==
    { Null, StrV(<<>>), StrV(<<" ", " ">>), StrV(<<" ", "a", " ">>),
      StrV(<<"b">>), IntV(0), IntV(5) }

LongText(len) == [i \in 1..len |-> "x"]

DescriptionValues ==
    { Null, StrV(<<>>), StrV(<<"a", "b">>), StrV(LongText(ShortLen)),
      StrV(LongText(ShortLen + 1)), IntV(5) }

ProbeRows ==
    { ProbeRow(1, p, Null, Null, Null, Null) : p \in PriorityValues }
    \cup { ProbeRow(1, IntV(0), h1, h2, h3, Null) :
             h1 \in HookValues, h2 \in HookValues, h3 \in HookValues }
    \cup { ProbeRow(1, IntV(0), Null, Null, Null, d) : d \in DescriptionValues }

\* The bodies whose rows stand beside the probe.
CompanionBodies ==
    { ("company" :> StrV(<<"B">>)) @@ (Priority :> StrV(Tak)),
      ("company" :> StrV(<<"a">>)) @@ (Priority :> StrV(Nie))
          @@ ("stand" :> StrV(<<"A", "1">>)),
      ("country" :> StrV(<<"P", "L">>)) @@ (Priority :> IntV(1)) }

\* Row 1 is a probe; rows 2..n are what Update wrote from a companion body.
QueryTables ==
    UNION { { {probe} \cup {StoredRow(i, UpdateParams(others[i])) : i \in 2..n} :
              probe \in ProbeRows, others \in [2..n -> CompanionBodies] } :
            n \in 1..MaxId }

InitQuery ==
    /\ dbExists = TRUE
    /\ companies \in QueryTables
    /\ req = NoRequest
    /\ resp = NoResponse
    /\ created = <<>>
    /\ connection = NotAcquired

NextQuery ==
    \/ \E args \in ListArgs : get_companies(args)
    \/ \E id \in Ids : get_company(id)

SpecQuery == InitQuery /\ [][NextQuery]_vars

---------------------------------------------------------------------------
(* Claims *)

Ids_of(table) == {r.id : r \in table}

\* Some field of the body holds a JSON array.
HasArray(data) == \E k \in DOMAIN data : data[k].t = "list"

\* C1: a Get by the id a successful Create returned for a body whose
\* company value is the text c, with no Update or Delete of that id in
\* between, answers 200 with a record whose name is c.
C1_GetAfterCreate ==
    (req.op = "get_company" /\ req.id \in DOMAIN created
     /\ created[req.id].t = "str")
        => /\ resp.status = 200
           /\ resp.items[1].name = created[req.id]

\* C2 as stated: with the storage reachable, an Update that carries a JSON
\* body (the empty object included) and names an id no row has answers 404
\* and leaves the table as it was.
C2_UpdateMissing_AnyBody ==
    [][(req'.op = "update_company" /\ req'.hasBody /\ dbExists
        /\ req'.id \notin Ids_of(companies))
          => (resp'.status = 404 /\ companies' = companies)]_vars

\* C2 amended: with the storage reachable, an Update that names an id no
\* row has leaves the table as it was and answers 404 when its body is a
\* non-empty object of values the driver can bind, 400 when the body is the
\* empty object, and 500 when a field holds an array.
C2_UpdateMissing ==
    [][(req'.op = "update_company" /\ req'.hasBody /\ dbExists
        /\ req'.id \notin Ids_of(companies))
          => /\ companies' = companies
             /\ resp'.status =
                   IF DOMAIN req'.data = {} THEN 400
                   ELSE IF HasArray(req'.data) THEN 500
                   ELSE 404]_vars

C2_Witness ==
    /\ req.op = "update_company" /\ req.hasBody /\ dbExists
    /\ DOMAIN req.data # {} /\ ~HasArray(req.data)
    /\ "company" \notin DOMAIN req.data
    /\ req.id \notin Ids_of(companies)
    /\ companies # {}
    /\ resp.status = 404

\* C3: with the storage reachable, a Delete of an id no row has answers 404
\* and leaves every row (so the row count) as it was; a Delete of an id a
\* row has answers 200 and removes that row and no other.
C3_Delete ==
    [][(req'.op = "delete_company" /\ dbExists)
          => IF req'.id \notin Ids_of(companies)
             THEN resp'.status = 404 /\ companies' = companies
             ELSE /\ resp'.status = 200
                  /\ req'.id \notin Ids_of(companies')
                  /\ \A r \in companies : r.id # req'.id => r \in companies'
                  /\ companies' \subseteq companies
                  /\ Cardinality(companies') = Cardinality(companies) - 1]_vars

C3_Witness ==
    /\ req.op = "delete_company" /\ resp.status = 200
    /\ req.id \notin Ids_of(companies)
    /\ companies # {}

AsStored(v) == IF v.t = "bool" THEN IntV(v.n) ELSE v

\* The rows other than the one with this id.
Others(table, id) == {r \in table : r.id # id}

\* C5 as stated: after a successful Update of id i, each of the ten data
\* fields of row i holds the value the body carries for it, or null when
\* the body omits it; row i keeps its id and every other row is unchanged.
C5_UpdateOverwrites_BodyValue ==
    [][(req'.op = "update_company" /\ resp'.status = 200)
          => /\ Others(companies', req'.id) = Others(companies, req'.id)
             /\ Cardinality(SelectWhereId(companies', req'.id)) = 1
             /\ \A r \in SelectWhereId(companies', req'.id) :
                   \A c \in Columns : r[c] = Get(req'.data, c)]_vars

\* C5 amended: after a successful Update of id i, each of the ten data
\* fields of row i holds the value the body carries for it as the driver
\* stores it (a JSON true or false as the integer 1 or 0), or null when the
\* body omits it; row i keeps its id and every other row is unchanged.
C5_UpdateOverwrites ==
    [][(req'.op = "update_company" /\ resp'.status = 200)
          => /\ Others(companies', req'.id) = Others(companies, req'.id)
             /\ Cardinality(SelectWhereId(companies', req'.id)) = 1
             /\ \A r \in SelectWhereId(companies', req'.id) :
                   \A c \in Columns :
                      r[c] = IF c \in DOMAIN req'.data
                             THEN AsStored(req'.data[c])
                             ELSE Null]_vars

C5_Witness ==
    /\ req.op = "update_company" /\ resp.status = 200
    /\ DOMAIN req.data = {"country"}
    /\ Cardinality(companies) = 2
    /\ \E r \in companies :
          /\ r.id = req.id
          /\ r.company = Null
          /\ r.czy_warto_sie_zainteresowac = Null
          /\ r.country = StrV(<<"P", "L">>)

\* C6: no two stored rows share an identifier; a successful Create returns
\* an identifier no row had and adds one row with it, keeping the others;
\* an Update leaves the identifiers of the rows as they were.
C6_Identifiers ==
    [][/\ \A r1, r2 \in companies' : r1.id = r2.id => r1 = r2
       /\ (req'.op = "add_company" /\ resp'.status = 201)
             => /\ resp'.id \notin Ids_of(companies)
                /\ companies \subseteq companies'
                /\ Ids_of(companies' \ companies) = {resp'.id}
       /\ req'.op = "update_company"
             => /\ Ids_of(companies') = Ids_of(companies)
                /\ Cardinality(companies') = Cardinality(companies)]_vars

C6_Witness ==
    /\ req.op = "update_company" /\ resp.status = 200
    /\ Ids_of(companies) = 1..MaxId
    /\ Cardinality(companies) = MaxId

\* C7: with the storage reachable, a List without search, searchBy and
\* priority answers 200 with the transformed record of every stored row,
\* each once, in ascending order of the company name.
C7_ListAll ==
    (req.op = "get_companies" /\ req.args.present = {} /\ dbExists)
        => /\ resp.status = 200
           /\ Len(resp.items) = Cardinality(companies)
           /\ \A r \in companies :
                 \E i \in 1..Len(resp.items) :
                    resp.items[i] = transform_company_data(r).v
           /\ \A i, j \in 1..Len(resp.items) :
                 i < j => ~SqlLess(resp.items[j].name, resp.items[i].name)

\* The raw priority values a filter token is to match.
Matching(token) ==
    IF token = Tak
    THEN {StrV(<<"1">>), StrV(Tak), StrV(<<"y", "e", "s">>)}
    ELSE {StrV(<<"0">>), StrV(Nie), StrV(<<"n", "o">>)}

\* C8: a List whose only parameter is priority "tak" answers with exactly
\* the rows whose raw stored priority is '1', 'tak' or 'yes'; with priority
\* "nie", exactly the rows whose raw stored priority is '0', 'nie' or 'no'.
C8_PriorityFilter ==
    (req.op = "get_companies" /\ req.args.present = {"priority"}
     /\ req.args.priority \in {Tak, Nie})
        => LET expected ==
                 {r \in companies :
                    r.czy_warto_sie_zainteresowac
                        \in Matching(req.args.priority)}
           IN  /\ resp.status = 200
               /\ Len(resp.items) = Cardinality(expected)
               /\ {resp.items[i].id : i \in 1..Len(resp.items)}
                     = Ids_of(expected)

C8_Witness ==
    /\ req.op = "get_companies" /\ req.args.present = {"priority"}
    /\ req.args.priority = Tak
    /\ \E r \in companies : r.czy_warto_sie_zainteresowac = StrV(<<"1">>)
    /\ \E r \in companies : r.czy_warto_sie_zainteresowac = StrV(Nie)
    /\ Len(resp.items) = 1

\* The raw value is the number k: the integer, the real or its numeral.
RawIs(v, k) ==
    \/ v = IntV(k)
    \/ v = FloatV(10 * k)
    \/ v.t = "str" /\ Strip(v.s) = NatStr(k)

\* C9: the transformer gives every raw stored priority a rarity: 0, 1 and
\* 2 map to themselves, every other value (a number out of range, a text
\* that is no number, null) to 0, and none makes it raise.
C9_Rarity ==
    (req.op = "get_company" /\ SelectWhereId(companies, req.id) # {})
        => /\ resp.status = 200
           /\ \A r \in SelectWhereId(companies, req.id) :
                 LET raw == r.czy_warto_sie_zainteresowac
                 IN  resp.items[1].rarity =
                        IF \E k \in {0, 1, 2} : RawIs(raw, k)
                        THEN CHOOSE k \in {0, 1, 2} : RawIs(raw, k)
                        ELSE 0

\* The hooks of a row that are non-null and not empty or whitespace-only,
\* trimmed, in the order hook1, hook2, hook3.
RECURSIVE NonBlankHooks(_, _)
NonBlankHooks(row, i) ==
    IF i > Len(HookKeys) THEN <<>>
    ELSE LET v == row[HookKeys[i]]
         IN  (IF v # Null /\ Strip(PyStr(v)) # <<>>
              THEN <<Strip(PyStr(v))>>
              ELSE <<>>) \o NonBlankHooks(row, i + 1)

\* C10: the hooks list of a transformed row is exactly the trimmed values
\* of its hooks that are non-null and not empty or whitespace-only, in the
\* order hook1, hook2, hook3.
C10_Hooks ==
    (req.op = "get_company" /\ resp.status = 200)
        => \A r \in SelectWhereId(companies, req.id) :
              resp.items[1].hooks = NonBlankHooks(r, 1)

\* The short description the claim gives a description that is a text or
\* null.
ShortOf(d) ==
    IF d.t = "str" /\ Len(d.s) > ShortLen
    THEN StrV(SubSeq(d.s, 1, ShortLen) \o <<".", ".", ".">>)
    ELSE IF d.t = "str" /\ Len(d.s) > 0
    THEN d
    ELSE Placeholder

\* C11: the short description of a transformed row is the first 100
\* characters of its description followed by '...' when the description is
\* longer than 100 characters, the description itself when it is non-empty
\* and at most 100 characters long, and the fallback placeholder when it is
\* empty or null.
C11_ShortDescription ==
    (req.op = "get_company" /\ resp.status = 200)
        => \A r \in SelectWhereId(companies, req.id) :
              r.czym_zajmuje_sie_firma.t \in {"str", "null"}
                  => resp.items[1].shortDescription =
                         ShortOf(r.czym_zajmuje_sie_firma)

\* A description of 101 characters was cut to 100 characters and '...'.
C11_Witness ==
    /\ req.op = "get_company"
    /\ resp.status = 200
    /\ \E r \in SelectWhereId(companies, req.id) :
          /\ r.czym_zajmuje_sie_firma = StrV(LongText(ShortLen + 1))
          /\ resp.items[1].shortDescription =
                 StrV(LongText(ShortLen) \o <<".", ".", ".">>)

\* C12: every handler that acquired a storage connection has closed it when
\* the request ends, on the success path, the 404 path and the path where
\* the statement or the transformation raises and the answer is 500; no
\* request leaves a connection open.
C12_ConnectionReleased ==
    connection # Open

===========================================================================
